---- MODULE Spec2Model ----
(***************************************************************************)
(* gh-stars-exporter: the synchronization engine of src/main.go.           *)
(*                                                                         *)
(* One process run is main(): flag parsing, the offline precondition,      *)
(* dbInit, fetchAllStarredRepos driving the page iterator callback, the    *)
(* tally report and the optional JSON export.  The remote service and the  *)
(* SQLite store are the environment: every request and every store         *)
(* operation may fail.  Strings the code parses (the Link header, URLs,    *)
(* topic lists) are sequences of one-character strings.                    *)
(***************************************************************************)
EXTENDS Integers, Sequences, FiniteSets, TLC

\* ----------------------------------------------------------------- bounds
MaxId == 3          \* repository identifiers are 1..MaxId
MaxPages == 2       \* the remote collection has at most this many pages
MaxRuns == 2        \* process runs against the same database file
MaxTopics == 2      \* topic labels of a repository, where the topics are the matter
MaxLabelLen == 2    \* characters of a topic label

MaxPageLen == MaxPages           \* records per page
Ids == 1..MaxId
Vers == {1, 2}      \* the remote's metadata and README content: before/after a change

\* ------------------------------------------------- strings as sequences
\* The white space strings.TrimSpace cuts (unicode.IsSpace): space, tab, line
\* feed, carriage return, form feed and, written as the characters
\* themselves in the UTF-8 text of this module, vertical tab (U+000B), next
\* line (U+0085), no-break space (U+00A0) and ogham space mark (U+1680).
\* The rest of it (U+2000-U+200A, U+2028, U+2029, U+202F, U+205F, U+3000)
\* cannot be written in a string of a module, so no string of the model
\* holds it.
Space == {" ", "\t", "\n", "\r", "\f", "", "", " ", " "}

RECURSIVE TrimLeft(_, _)
TrimLeft(s, cut) ==
    IF s # <<>> /\ Head(s) \in cut THEN TrimLeft(Tail(s), cut) ELSE s

RECURSIVE TrimRight(_, _)
TrimRight(s, cut) ==
    IF s # <<>> /\ s[Len(s)] \in cut
    THEN TrimRight(SubSeq(s, 1, Len(s) - 1), cut) ELSE s

\* strings.Trim(s, cutset)
Trim(s, cut) == TrimRight(TrimLeft(s, cut), cut)

\* strings.TrimSpace(s)
TrimSpace(s) == Trim(s, Space)

\* strings.Split(s, sep) for a one-character sep: the pieces between the
\* separators, in order; always at least one piece
Split(s, sep) ==
    LET pos == {i \in 1..Len(s) : s[i] = sep}
        n == Cardinality(pos)
        at(k) == CHOOSE i \in pos : Cardinality({j \in pos : j < i}) = k - 1
        from(k) == IF k = 1 THEN 1 ELSE at(k - 1) + 1
        to(k) == IF k = n + 1 THEN Len(s) ELSE at(k) - 1
    IN  [k \in 1..(n + 1) |-> SubSeq(s, from(k), to(k))]

\* strings.Join(list, sep) for a one-character sep
RECURSIVE Join(_, _)
Join(list, sep) ==
    IF list = <<>> THEN <<>>
    ELSE IF Len(list) = 1 THEN list[1]
    ELSE list[1] \o <<sep>> \o Join(Tail(list), sep)

RECURSIVE Flatten(_)
Flatten(ss) == IF ss = <<>> THEN <<>> ELSE Head(ss) \o Flatten(Tail(ss))

Range(s) == {s[i] : i \in 1..Len(s)}

\* ------------------------------------------------------- README candidates
readmeFiles ==
    << "README.md", "README.rst", "docs/README.md", ".github/README.md",
       "README.adoc", "README.markdown", "README.rdoc", "README.txt",
       "README", "readme.md", "Readme.md", "README.MD", "readme", "Readme",
       "readme.rst", "Readme.rst", "README.org", "Readme.org", "readme.org",
       "docs/Readme.md", "docs/readme.md" >>

NumFiles == Len(readmeFiles)

\* ------------------------------------------------------------ data model
\* sql.NullString
NullString(str, valid) == [String |-> str, Valid |-> valid]
NoReadme == NullString(<<>>, FALSE)

ZeroTime == 0

\* The remote's view of repository id at version v (the wire-level "repo" object).
IsPrivate(id) == id = 1

TopicsOf(id) ==
    IF id = 1 THEN <<>>
    ELSE IF id = 2 THEN << <<"g", "o">> >>
    ELSE << <<"c", "l", "i">>, <<"g", "o">> >>

\* type Repository, as decoded from the wire: starred_at and readme are not
\* part of the "repo" object and keep their zero values.
Repository(id, v) ==
    [ ID          |-> id,
      FullName    |-> <<"o", "/", "r", id>>,
      Description |-> <<"d", v>>,
      Topics      |-> TopicsOf(id),
      Private     |-> IsPrivate(id),
      StarredAt   |-> ZeroTime,
      Readme      |-> NoReadme ]

\* type StarredRepo
StarredRepo(id, v) == [Repo |-> Repository(id, v), StarredAt |-> 10 * id + v]

\* StringList.Value: the stored form of a topic list
Value(sl) == Join(sl, ",")

\* StringList.Scan of a stored (non-NULL) string
Scan(v) == Split(v, ",")

\* The row Insert/Update writes for a Repository (db tags of the struct).
RowOf(repo) ==
    [ id          |-> repo.ID,
      full_name   |-> repo.FullName,
      description |-> repo.Description,
      topics      |-> Value(repo.Topics),
      private     |-> repo.Private,
      starred_at  |-> repo.StarredAt,
      readme      |-> repo.Readme ]

\* A faulty variant: starred_at is not read back from the row.
RepoOfUnstarred(row) ==
    [ ID          |-> row.id,
      FullName    |-> row.full_name,
      Description |-> row.description,
      Topics      |-> Scan(row.topics),
      Private     |-> row.private,
      StarredAt   |-> ZeroTime,
      Readme      |-> row.readme ]

\* The Repository res.One(&r) scans from a row.
RepoOf(row) ==
    [ ID          |-> row.id,
      FullName    |-> row.full_name,
      Description |-> row.description,
      Topics      |-> Scan(row.topics),
      Private     |-> row.private,
      StarredAt   |-> row.starred_at,
      Readme      |-> row.readme ]

NoRow == [id |-> 0]
EmptyStore == [i \in Ids |-> NoRow]
Stored(st, id) == st[id] # NoRow

\* ------------------------------------------------------ the remote service
Digits == <<"1", "2", "3", "4", "5", "6", "7", "8", "9">>

\* "https://api.github.com/user/starred?per_page=100", abbreviated
StartURL == <<"h", ":", "/", "s", "?", "n", "=", "1", "0", "0">>

\* The URL the service names for page k in its Link headers.
PageURL(k) == StartURL \o <<"&", "p", "=", Digits[k]>>

Angle(u) == <<"<">> \o u \o <<">">>
Rel(name) == <<";", " ", "r", "e", "l", "=", "\"">> \o name \o <<"\"">>
RelNext == <<"n", "e", "x", "t">>
RelPrev == <<"p", "r", "e", "v">>
RelLast == <<"l", "a", "s", "t">>
RelFirst == <<"f", "i", "r", "s", "t">>
LinkEntry(k, name) == Angle(PageURL(k)) \o Rel(name)
Comma == <<",", " ">>

\* The Link header the service sends with page i of n: absent for a single
\* page; next,last on the first page; prev,next,last,first in the middle;
\* prev,first on the last page.
LinkHeader(i, n) ==
    IF n <= 1 THEN <<>>
    ELSE IF i = 1
      THEN LinkEntry(2, RelNext) \o Comma \o LinkEntry(n, RelLast)
    ELSE IF i < n
      THEN LinkEntry(i - 1, RelPrev) \o Comma \o LinkEntry(i + 1, RelNext)
           \o Comma \o LinkEntry(n, RelLast) \o Comma \o LinkEntry(1, RelFirst)
    ELSE LinkEntry(i - 1, RelPrev) \o Comma \o LinkEntry(1, RelFirst)

\* The page a URL addresses in a collection of n pages; 0 when it names none.
PageIndex(url, n) ==
    IF url = StartURL THEN 1
    ELSE IF \E k \in 1..n : url = PageURL(k)
      THEN CHOOSE k \in 1..n : url = PageURL(k)
    ELSE 0

\* The decoded body of page i: the StarredRepo list in the order sent.
PageBody(pgs, i, v) == [k \in 1..Len(pgs[i]) |-> StarredRepo(pgs[i][k], v)]

\* A remote collection: at least one page (a user with no stars gets one
\* empty page), no page empty otherwise.  The starred repositories are the
\* first few identifiers in ascending or in descending order, cut into at
\* most MaxPages pages of at most MaxPageLen records, or served one record
\* per page.
Ascending == [k \in 1..MaxId |-> k]
Descending == [k \in 1..MaxId |-> MaxId + 1 - k]

IsPrefix(s, t) == Len(s) <= Len(t) /\ s = SubSeq(t, 1, Len(s))

PageSet == UNION {[1..n -> Ids] : n \in 1..MaxPageLen}

OnePerPage ==
    {[k \in 1..n |-> <<o[k]>>] : n \in 1..MaxId, o \in {Ascending, Descending}}

Remotes ==
    { << <<>> >> } \cup OnePerPage \cup
    {r \in UNION {[1..n -> PageSet] : n \in 1..MaxPages} :
        IsPrefix(Flatten(r), Ascending) \/ IsPrefix(Flatten(r), Descending)}

MostPages == IF MaxId > MaxPages THEN MaxId ELSE MaxPages

\* ----------------------------------------------------------- pagination
RelNextQuoted == <<"r", "e", "l", "=", "\"">> \o RelNext \o <<"\"">>

RECURSIVE NextIn(_)
NextIn(links) ==
    IF links = <<>> THEN <<>>
    ELSE LET parts == Split(Head(links), ";") IN
         IF Len(parts) = 2 /\ TrimSpace(parts[2]) = RelNextQuoted
         THEN Trim(TrimSpace(parts[1]), {"<", ">"})
         ELSE NextIn(Tail(links))

RECURSIVE NextInUntrimmed(_)
NextInUntrimmed(links) ==
    IF links = <<>> THEN <<>>
    ELSE LET parts == Split(Head(links), ";") IN
         IF Len(parts) = 2 /\ parts[2] = RelNextQuoted
         THEN Trim(TrimSpace(parts[1]), {"<", ">"})
         ELSE NextInUntrimmed(Tail(links))

\* A faulty variant: the relation is compared without trimming the space
\* that follows ";".
getNextPageURLUntrimmed(linkHeader) ==
    IF linkHeader = <<>> THEN <<>>
    ELSE NextInUntrimmed(Split(linkHeader, ","))

\* getNextPageURL: the URL tagged rel="next" in the Link header, "" if none
getNextPageURL(linkHeader) ==
    IF linkHeader = <<>> THEN <<>>
    ELSE NextIn(Split(linkHeader, ","))

\* ------------------------------------------------------- README resolver
\* What the content endpoint answers for one repository: candidates before
\* `first` fail (at transport level, with a non-success status, or
\* alternating), candidates from `first` on answer 200; first = 0: none does.
Profile(first, kind, empty, readOk, tag) ==
    [first |-> first, kind |-> kind, empty |-> empty, readOk |-> readOk, tag |-> tag]

FailKinds == {"transport", "status", "mixed"}

\* The outcome of client.Do + io.ReadAll for candidate i of repository id.
Probe(env, id, i) ==
    IF env.first # 0 /\ i >= env.first
    THEN [ kind |-> IF env.readOk THEN "ok" ELSE "readfail",
           body |-> IF env.empty THEN <<>> ELSE <<id, i, env.tag>> ]
    ELSE [ kind |-> IF env.kind = "mixed"
                    THEN (IF i % 2 = 1 THEN "transport" ELSE "status")
                    ELSE env.kind,
           body |-> <<>> ]

RepoIdOf(fullName) == fullName[Len(fullName)]

RECURSIVE ProbeLoop(_, _, _, _)
ProbeLoop(env, id, i, probed) ==
    IF i > NumFiles
    THEN [probes |-> probed, content |-> <<>>, err |-> "notfound"]
    ELSE LET resp == Probe(env, id, i)
             now == Append(probed, i)
         IN  IF resp.kind = "transport" THEN ProbeLoop(env, id, i + 1, now)
             ELSE IF resp.kind = "ok"
               THEN [probes |-> now, content |-> resp.body, err |-> "nil"]
             ELSE IF resp.kind = "readfail"
               THEN [probes |-> now, content |-> <<>>, err |-> "read"]
             ELSE ProbeLoop(env, id, i + 1, now)

RECURSIVE ProbeLoopAbort(_, _, _, _)
ProbeLoopAbort(env, id, i, probed) ==
    IF i > NumFiles
    THEN [probes |-> probed, content |-> <<>>, err |-> "notfound"]
    ELSE LET resp == Probe(env, id, i)
             now == Append(probed, i)
         IN  IF resp.kind = "transport"
               THEN [probes |-> now, content |-> <<>>, err |-> "transport"]
             ELSE IF resp.kind = "ok"
               THEN [probes |-> now, content |-> resp.body, err |-> "nil"]
             ELSE IF resp.kind = "readfail"
               THEN [probes |-> now, content |-> <<>>, err |-> "read"]
             ELSE ProbeLoopAbort(env, id, i + 1, now)

\* A faulty variant: a transport failure of one probe ends the resolution.
getReadmeContentAbort(repo, envs) ==
    LET id == RepoIdOf(repo.FullName)
    IN  ProbeLoopAbort(envs[id], id, 1, <<>>)

\* getReadmeContent(repo): the candidates probed, in order, and what is
\* returned; envs maps each repository to what the endpoint answers for it.
getReadmeContent(repo, envs) ==
    LET id == RepoIdOf(repo.FullName)
    IN  ProbeLoop(envs[id], id, 1, <<>>)

NoCall == [probes |-> <<>>, content |-> <<>>, err |-> "nocall"]

\* What the endpoint answers for repository id while the remote is at version v.
ReadmeEnv(id, v) ==
    IF id = 1 THEN Profile(1, "status", FALSE, TRUE, v)
    ELSE IF id = 2
      THEN (IF v = 1 THEN Profile(3, "mixed", FALSE, TRUE, v)
                     ELSE Profile(2, "status", FALSE, TRUE, v))
    ELSE (IF v = 1 THEN Profile(0, "mixed", FALSE, TRUE, v)
                   ELSE Profile(NumFiles, "transport", TRUE, TRUE, v))

ReadmeEnvs(v) == [id \in Ids |-> ReadmeEnv(id, v)]

\* ------------------------------------------------------------------ state
VARIABLES
    pages,          \* the remote collection: a sequence of pages of identifiers
    ver,            \* the version of the remote's metadata and README content
    readmes,        \* what the content endpoint answers, per repository
    starred_repos,  \* the table starred_repos: identifier -> row, or NoRow
    dbExists,       \* the database file exists
    runs,           \* processes started so far
    pc,             \* where main() is: idle, walk, iter, report, export, done
    exit,           \* how the process ended: none, ok, fatal
    storePrivate, getReadme, jsonFlag, skipUpdate,   \* the flags
    nextPageURL, currentPage,                        \* fetchAllStarredRepos
    repos, idx,     \* the page handed to the iterator and the loop position
    err,            \* main's err after fetchAllStarredRepos: none, nil, err
    newStars,       \* the package-level tally addNewRepo increments
    mainNewStars,   \* the newStars main declares and logs
    updatedStars,   \* the package-level tally updateRepoReadme increments
    h               \* the record of what this run did (observation only)

vars == << pages, ver, readmes, starred_repos, dbExists, runs, pc, exit,
           storePrivate, getReadme, jsonFlag, skipUpdate, nextPageURL,
           currentPage, repos, idx, err, newStars, mainNewStars,
           updatedStars, h >>

remote == << pages, ver, readmes >>
flags == << storePrivate, getReadme, jsonFlag, skipUpdate >>
walker == << nextPageURL, currentPage >>
tallies == << newStars, mainNewStars, updatedStars >>

NoReport == [new |-> -1, updated |-> -1]

H0 ==
    [ requests  |-> 0,        \* page requests issued
      delivered |-> <<>>,     \* the pages handed to the iterator, as id lists
      processed |-> 0,        \* records the iterator's loop has taken up
      lookups   |-> 0,        \* store lookups (res.One)
      probes    |-> 0,        \* README probes issued
      tokens    |-> 0,        \* reads of the credential
      inserts   |-> 0,        \* successful inserts
      updates   |-> 0,        \* successful README updates
      faults    |-> {},       \* the requests and store operations that failed
      stepFaults |-> {},      \* those that failed in the last fetch or reconciliation step
      last      |-> NoCall,   \* the last getReadmeContent call
      reported  |-> NoReport, \* the tallies logged
      exported  |-> FALSE,    \* jsonExport ran
      output    |-> <<>>,     \* the array jsonExport printed
      again     |-> FALSE ]   \* this run repeats a clean run, nothing changed

Init ==
    /\ pages \in Remotes
    /\ ver \in Vers
    /\ readmes = ReadmeEnvs(ver)
    /\ starred_repos = EmptyStore
    /\ dbExists = FALSE
    /\ runs = 0
    /\ pc = "idle"
    /\ exit = "none"
    /\ storePrivate = FALSE /\ getReadme = FALSE
    /\ jsonFlag = FALSE /\ skipUpdate = FALSE
    /\ nextPageURL = <<>> /\ currentPage = 0
    /\ repos = <<>> /\ idx = 0
    /\ err = "none"
    /\ newStars = 0 /\ mainNewStars = 0 /\ updatedStars = 0
    /\ h = H0

\* --------------------------------------------------------- store operations
\* A faulty variant: the table has no key, an insert replaces the stored row.
InsertUnkeyed(st, repo, envOk) ==
    IF envOk
    THEN [store |-> [st EXCEPT ![repo.ID] = RowOf(repo)], err |-> "nil"]
    ELSE [store |-> st, err |-> "err"]

\* Insert: the environment may fail it; id is the table's PRIMARY KEY, so a
\* second row with a stored identifier is refused.
Insert(st, repo, envOk) ==
    IF envOk /\ ~Stored(st, repo.ID)
    THEN [store |-> [st EXCEPT ![repo.ID] = RowOf(repo)], err |-> "nil"]
    ELSE [store |-> st, err |-> "err"]

\* res.Update(r) on the result set Find(id = r.ID)
Update(st, r, envOk) ==
    IF envOk
    THEN [store |-> [st EXCEPT ![r.ID] = RowOf(r)], err |-> "nil"]
    ELSE [store |-> st, err |-> "err"]

\* A faulty variant: a README that cannot be fetched is returned as an error
\* in place of the insert.
addNewRepoStrict(repo, st, envOk) ==
    LET got == IF getReadme THEN getReadmeContent(repo, readmes) ELSE NoCall
        full == IF got.err = "nil"
                THEN [repo EXCEPT !.Readme = NullString(got.content, TRUE)]
                ELSE repo
        ins == IF got.err \in {"nil", "nocall"} THEN Insert(st, full, envOk)
               ELSE [store |-> st, err |-> "skipped"]
    IN  [ store |-> ins.store, err |-> ins.err, got |-> got,
          new |-> IF ins.err = "nil" THEN 1 ELSE 0, updated |-> 0,
          op |-> "insert" ]

\* addNewRepo(repo, sess)
addNewRepo(repo, st, envOk) ==
    LET got == IF getReadme THEN getReadmeContent(repo, readmes) ELSE NoCall
        full == IF got.err = "nil"
                THEN [repo EXCEPT !.Readme = NullString(got.content, TRUE)]
                ELSE repo
        ins == Insert(st, full, envOk)
    IN  [ store |-> ins.store, err |-> ins.err, got |-> got,
          new |-> IF ins.err = "nil" THEN 1 ELSE 0, updated |-> 0,
          op |-> "insert" ]

\* A faulty variant: the README is fetched and written even when one is stored.
updateRepoReadmeAlways(r, st, envOk) ==
    LET got == getReadmeContent(r, readmes) IN
    IF got.err # "nil"
    THEN [ store |-> st, err |-> "nil", got |-> got, new |-> 0,
           updated |-> 0, op |-> "update" ]
    ELSE LET upd == Update(st, [r EXCEPT !.Readme =
                                  NullString(got.content, TRUE)], envOk)
         IN  [ store |-> upd.store, err |-> upd.err, got |-> got,
               new |-> 0, updated |-> IF upd.err = "nil" THEN 1 ELSE 0,
               op |-> "update" ]

\* updateRepoReadme(r, res)
updateRepoReadme(r, st, envOk) ==
    IF r.Readme.Valid
    THEN [ store |-> st, err |-> "nil", got |-> NoCall, new |-> 0,
           updated |-> 0, op |-> "update" ]
    ELSE LET got == getReadmeContent(r, readmes) IN
         IF got.err # "nil"
         THEN [ store |-> st, err |-> "nil", got |-> got, new |-> 0,
                updated |-> 0, op |-> "update" ]
         ELSE LET upd == Update(st, [r EXCEPT !.Readme =
                                       NullString(got.content, TRUE)], envOk)
              IN  [ store |-> upd.store, err |-> upd.err, got |-> got,
                    new |-> 0, updated |-> IF upd.err = "nil" THEN 1 ELSE 0,
                    op |-> "update" ]

\* ------------------------------------------------------------ the process
\* A faulty variant: the file is looked for after dbInit has created it, so
\* the check never fires.
OfflinePreconditionLate(su, jf) == FALSE

\* main, lines 159-163: skipUpdate && jsonFlag and os.Stat(dbFile) reports
\* that the file does not exist.
OfflinePrecondition(su, jf) == su /\ jf /\ ~dbExists

DbOutcomes == {"ok", "early", "late"}

\* main() up to the walk: flag.Parse, the offline precondition, dbInit and
\* the credential.  tok: GITHUB_TOKEN is set; db: what becomes of dbInit.
\* dbInit runs migrateDB, which creates the database file and the table,
\* and then sqlite.Open: it succeeds (ok), fails before the file is there
\* (early), or fails when migrateDB has created the file (late).
StartProcess(sp, gr, jf, su, tok, db, again) ==
    /\ runs < MaxRuns
    /\ runs' = runs + 1
    /\ storePrivate' = sp /\ getReadme' = gr /\ jsonFlag' = jf /\ skipUpdate' = su
    /\ repos' = <<>> /\ idx' = 0
    /\ newStars' = 0 /\ mainNewStars' = 0 /\ updatedStars' = 0
    /\ err' = "none"
    /\ UNCHANGED << remote, starred_repos >>
    /\ IF OfflinePrecondition(su, jf)
       THEN \* logger.Fatal: database file not found
            /\ pc' = "done" /\ exit' = "fatal"
            /\ h' = [H0 EXCEPT !.again = again, !.faults = {"precondition"}]
            /\ UNCHANGED << dbExists, walker >>
       ELSE IF db # "ok"
       THEN \* logger.Fatal: opening database
            /\ pc' = "done" /\ exit' = "fatal"
            /\ dbExists' = (dbExists \/ db = "late")
            /\ h' = [H0 EXCEPT !.again = again, !.faults = {"dbinit"}]
            /\ UNCHANGED walker
       ELSE IF su
       THEN /\ pc' = "export" /\ exit' = "none"
            /\ dbExists' = TRUE
            /\ h' = [H0 EXCEPT !.again = again]
            /\ UNCHANGED walker
       ELSE IF ~tok
       THEN \* token(): logger.Fatal, GITHUB_TOKEN is required
            /\ pc' = "done" /\ exit' = "fatal"
            /\ dbExists' = TRUE
            /\ h' = [H0 EXCEPT !.again = again, !.tokens = 1,
                               !.faults = {"token"}]
            /\ UNCHANGED walker
       ELSE /\ pc' = "walk" /\ exit' = "none"
            /\ dbExists' = TRUE
            /\ nextPageURL' = StartURL /\ currentPage' = 1
            /\ h' = [H0 EXCEPT !.again = again, !.tokens = 1]

\* A process is started on the database file.
StartRun ==
    /\ pc = "idle"
    /\ \E sp, gr, jf, su, tok \in BOOLEAN, db \in DbOutcomes :
          StartProcess(sp, gr, jf, su, tok, db, FALSE)

\* One turn of the loop of fetchAllStarredRepos up to the call of the
\* iterator: the request, the status check, the decoding, the Link header.
\* outcome: what becomes of the request.
Fetch(outcome) ==
    /\ pc = "walk" /\ nextPageURL # <<>>
    /\ LET n == Len(pages)
            i == PageIndex(nextPageURL, n)
            eff == IF outcome = "ok" /\ i = 0 THEN "status" ELSE outcome
        IN  IF eff = "ok"
            THEN /\ repos' = PageBody(pages, i, ver)
                 /\ idx' = 1
                 /\ nextPageURL' = getNextPageURL(LinkHeader(i, n))
                 /\ pc' = "iter"
                 /\ h' = [h EXCEPT !.requests = @ + 1,
                                   !.delivered = Append(@, pages[i]),
                                   !.stepFaults = {}]
                 /\ UNCHANGED << currentPage, err >>
            ELSE /\ pc' = "report"
                 \* line 278 returns err, which is nil after a completed request
                 /\ err' = IF eff = "status" THEN "nil" ELSE "err"
                 /\ h' = [h EXCEPT !.requests = @ + 1,
                                   !.faults = @ \cup {eff},
                                   !.stepFaults = {eff}]
                 /\ UNCHANGED << repos, idx, walker >>
    /\ UNCHANGED << remote, starred_repos, dbExists, runs, exit, flags, tallies >>

FetchPage ==
    \E outcome \in {"ok", "transport", "status", "decode"} : Fetch(outcome)

\* The loop of fetchAllStarredRepos ends: no next page.
WalkEnd ==
    /\ pc = "walk" /\ nextPageURL = <<>>
    /\ pc' = "report"
    /\ err' = "nil"
    /\ UNCHANGED << remote, starred_repos, dbExists, runs, exit, flags, walker,
                    repos, idx, tallies, h >>

\* A faulty variant: the privacy check reads the flag the wrong way round.
SkipPrivateInverted(repo) == repo.Private /\ storePrivate

\* A faulty variant: the store-private flag is not consulted.
SkipPrivateAlways(repo) == repo.Private

\* repo.Private && !storePrivate
SkipPrivate(repo) == repo.Private /\ ~storePrivate

\* Some probe of the call failed at transport level (or reading its body did).
ProbeFaulted(repo, got) ==
    LET id == RepoIdOf(repo.FullName) IN
    \E i \in Range(got.probes) :
        Probe(readmes[id], id, i).kind \in {"transport", "readfail"}

Noop(st) ==
    [ store |-> st, err |-> "nil", got |-> NoCall, new |-> 0, updated |-> 0,
      op |-> "none" ]

\* The requests and store operations that failed in a reconciliation step.
StepFaults(repo, res, lk) ==
    (IF lk = "error" THEN {"lookup"} ELSE {})
    \cup (IF res.err = "err" THEN {res.op} ELSE {})
    \cup (IF ProbeFaulted(repo, res.got) THEN {"probe"} ELSE {})

\* What a reconciliation step adds to the record of the run.
Noted(repo, res, lk) ==
    [h EXCEPT
        !.processed = @ + 1,
        !.lookups = @ + 1,
        !.probes = @ + Len(res.got.probes),
        !.tokens = @ + Len(res.got.probes),
        !.inserts = @ + res.new,
        !.updates = @ + res.updated,
        !.last = IF res.got.err = "nocall" THEN @ ELSE res.got,
        !.faults = @ \cup StepFaults(repo, res, lk),
        !.stepFaults = StepFaults(repo, res, lk) ]

\* A faulty variant: the record from the remote is handed on, not the
\* stored one.
ExistingFromRemote(repo, st, envOk) ==
    IF getReadme
    THEN updateRepoReadme([repo EXCEPT !.Readme = st[repo.ID].readme], st, envOk)
    ELSE Noop(st)

\* The iterator on a record the lookup found (lines 186-191): r is the
\* stored record; its README is completed when --get-readme is given.
Existing(repo, st, envOk) ==
    LET r == RepoOf(st[repo.ID])
    IN  IF getReadme THEN updateRepoReadme(r, st, envOk) ELSE Noop(st)

\* One iteration of the iterator's loop over the page (lines 175-194).
\* lk: the lookup res.One answers truthfully (ok) or fails (error);
\* envOk: the store carries out the write this iteration attempts.
ReconcileWith(lk, envOk) ==
    /\ pc = "iter" /\ idx <= Len(repos)
    /\ LET sr == repos[idx]
           repo == [sr.Repo EXCEPT !.StarredAt = sr.StarredAt]
       IN  IF SkipPrivate(repo)
           THEN \* continue
                /\ idx' = idx + 1
                /\ h' = [h EXCEPT !.processed = @ + 1, !.stepFaults = {}]
                /\ UNCHANGED << starred_repos, pc, err, walker, tallies >>
           ELSE IF lk = "ok" /\ Stored(starred_repos, repo.ID)
                THEN \* err == nil: the record exists; continue
                     LET res == Existing(repo, starred_repos, envOk)
                     IN  /\ starred_repos' = res.store
                         /\ updatedStars' = updatedStars + res.updated
                         /\ idx' = idx + 1
                         /\ h' = Noted(repo, res, lk)
                         /\ UNCHANGED << pc, err, walker, newStars, mainNewStars >>
                ELSE \* return addNewRepo(repo, sess)
                     LET res == addNewRepo(repo, starred_repos, envOk)
                     IN  /\ starred_repos' = res.store
                         /\ newStars' = newStars + res.new
                         /\ h' = Noted(repo, res, lk)
                         /\ IF res.err = "nil"
                            THEN \* the iterator returned nil: line 299
                                 /\ pc' = "walk"
                                 /\ currentPage' = currentPage + 1
                                 /\ UNCHANGED << err, nextPageURL >>
                            ELSE \* fetchAllStarredRepos returns the error
                                 /\ pc' = "report"
                                 /\ err' = "err"
                                 /\ UNCHANGED walker
                         /\ UNCHANGED << idx, mainNewStars, updatedStars >>
    /\ UNCHANGED << remote, dbExists, runs, exit, flags, repos >>

Reconcile ==
    \E lk \in {"ok", "error"}, envOk \in BOOLEAN : ReconcileWith(lk, envOk)

\* The iterator's loop is over: it returns nil, and the walk goes on.
IterEnd ==
    /\ pc = "iter" /\ idx > Len(repos)
    /\ pc' = "walk"
    /\ currentPage' = currentPage + 1
    /\ UNCHANGED << remote, starred_repos, dbExists, runs, exit, flags,
                    nextPageURL, repos, idx, err, tallies, h >>

\* main after the walk (lines 198-199): err is not looked at, the tallies
\* are logged.
Report ==
    /\ pc = "report"
    /\ pc' = "export"
    /\ h' = [h EXCEPT !.reported = [new |-> mainNewStars, updated |-> updatedStars]]
    /\ UNCHANGED << remote, starred_repos, dbExists, runs, exit, flags, walker,
                    repos, idx, err, tallies >>

\* The stored identifiers in the order of the table's primary key.
StoredIds(st) == {id \in Ids : Stored(st, id)}

InOrder(S) ==
    [k \in 1..Cardinality(S) |->
        CHOOSE x \in S : Cardinality({y \in S : y < x}) = k - 1]

\* A faulty variant: private records are left out of the export.
jsonExportPublic(st, readOk) ==
    LET ids == InOrder({id \in StoredIds(st) : ~st[id].private})
    IN  IF readOk THEN [k \in 1..Len(ids) |-> RepoOf(st[ids[k]])] ELSE <<>>

\* jsonExport(sess): Find().All(&stars) scans every row into a Repository;
\* its error is not looked at, so a failed read leaves the array empty.
jsonExport(st, readOk) ==
    LET ids == InOrder(StoredIds(st))
    IN  IF readOk THEN [k \in 1..Len(ids) |-> RepoOf(st[ids[k]])] ELSE <<>>

\* main, lines 204-210: the JSON export when asked for, then the process ends.
\* readOk: the store carries out the read.
ExportWith(readOk) ==
    /\ pc = "export"
    /\ pc' = "done"
    /\ exit' = "ok"
    /\ IF jsonFlag
       THEN h' = [h EXCEPT !.exported = TRUE,
                          !.output = jsonExport(starred_repos, readOk),
                          !.faults = IF readOk THEN @ ELSE @ \cup {"read"}]
       ELSE h' = [h EXCEPT !.exported = FALSE]
    /\ UNCHANGED << remote, starred_repos, dbExists, runs, flags, walker,
                    repos, idx, err, tallies >>

Export == \E readOk \in BOOLEAN : ExportWith(readOk)

Clean == h.faults = {}

\* The process is gone; the database file stays.  The remote may change
\* before the next run (a change is not taken back).
Exit ==
    /\ pc = "done"
    /\ pc' = "idle" /\ exit' = "none"
    /\ \E v \in Vers : v >= ver /\ ver' = v /\ readmes' = ReadmeEnvs(v)
    /\ storePrivate' = FALSE /\ getReadme' = FALSE
    /\ jsonFlag' = FALSE /\ skipUpdate' = FALSE
    /\ nextPageURL' = <<>> /\ currentPage' = 0
    /\ repos' = <<>> /\ idx' = 0
    /\ err' = "none"
    /\ newStars' = 0 /\ mainNewStars' = 0 /\ updatedStars' = 0
    /\ h' = H0
    /\ UNCHANGED << pages, starred_repos, dbExists, runs >>

\* The same command is run again at once: same flags, same credential,
\* the remote unchanged.
RunAgain ==
    /\ pc = "done" /\ exit = "ok" /\ ~skipUpdate
    /\ StartProcess(storePrivate, getReadme, jsonFlag, skipUpdate, TRUE, "ok", Clean)

Next ==
    \/ StartRun
    \/ FetchPage
    \/ Reconcile
    \/ IterEnd
    \/ WalkEnd
    \/ Report
    \/ Export
    \/ Exit
    \/ RunAgain

Spec == Init /\ [][Next]_vars

\* ------------------------------------------------------------------ claims
RemoteIds == Range(Flatten(pages))
Eligible(id) == ~IsPrivate(id) \/ storePrivate
Ended == pc = "done" /\ exit = "ok" /\ ~skipUpdate

\* The record the iterator's loop is about to take up, and the one it has
\* just left behind (in the same call of the iterator).
AtRecord == pc = "iter" /\ idx <= Len(repos)
Current == repos[idx].Repo
PastRecord == pc = "iter" /\ idx >= 2 /\ idx - 1 <= Len(repos)
Previous == repos[idx - 1].Repo

\* C1: at the end of a synchronization run in which no request and no store
\* operation failed, every record of every delivered page has been taken up
\* by the reconciliation and every remote record that is public (or private
\* with store-private enabled) is in the store.
C1_CleanRunStoresEveryEligible ==
    (Ended /\ Clean) =>
        /\ h.processed = Len(Flatten(pages))
        /\ \A id \in RemoteIds : Eligible(id) => Stored(starred_repos, id)

\* C2: a run that repeats a run without failures, with the same flags and
\* against the unchanged remote, performs no insert and no README update.
C2_SecondRunIdle ==
    (Ended /\ h.again /\ Clean) => (h.inserts = 0 /\ h.updates = 0)

\* C3: with store-private disabled, the reconciliation of a private record
\* performs no store lookup, no insert, no update and no README probe and
\* leaves the store as it is, whatever fetch-readme says and whether or not
\* the identifier is stored; and no step of a run with store-private disabled
\* adds a private record to the store.
C3_PrivateFilter ==
    [][ /\ (AtRecord /\ Current.Private /\ ~storePrivate) =>
            /\ starred_repos' = starred_repos
            /\ h'.lookups = h.lookups
            /\ h'.probes = h.probes
            /\ h'.inserts = h.inserts
            /\ h'.updates = h.updates
        /\ ~storePrivate =>
            \A id \in Ids :
                (Stored(starred_repos', id) /\ starred_repos'[id].private)
                    => Stored(starred_repos, id) ]_vars

\* C3 witness: with store-private disabled and fetch-readme enabled, the
\* iterator has just passed a private record that is already stored without
\* a README.
C3_Witness ==
    /\ PastRecord /\ Previous.Private /\ ~storePrivate /\ getReadme
    /\ Stored(starred_repos, Previous.ID)
    /\ ~starred_repos[Previous.ID].readme.Valid
    /\ h.processed >= 1 /\ h.lookups = 0

HasReadme(row) == row.readme.Valid /\ row.readme.String # <<>>

\* C4: once a stored record has a non-empty README, no step of any later
\* run changes that record's README or sets it back to absent, whether
\* fetch-readme is enabled or not and whatever the remote now serves.
C4_ReadmeMonotone ==
    [][ \A id \in Ids :
            (Stored(starred_repos, id) /\ HasReadme(starred_repos[id])) =>
                /\ Stored(starred_repos', id)
                /\ starred_repos'[id].readme = starred_repos[id].readme ]_vars

\* C4 witness: with fetch-readme enabled the iterator has just passed a
\* stored record whose README was fetched while the remote served another
\* version of it.
C4_Witness ==
    /\ PastRecord /\ getReadme /\ ~SkipPrivate(Previous)
    /\ Stored(starred_repos, Previous.ID)
    /\ HasReadme(starred_repos[Previous.ID])
    /\ starred_repos[Previous.ID].readme.String[3] # ver
    /\ readmes[Previous.ID].first # 0

\* ------------------------------------------------------------- one run
\* A single process run.  The program is sequential and keeps executing:
\* whichever step of main is enabled is eventually taken.
RunNext ==
    \/ StartRun
    \/ FetchPage
    \/ Reconcile
    \/ IterEnd
    \/ WalkEnd
    \/ Report
    \/ Export

RunSpec == Init /\ [][RunNext]_vars /\ WF_vars(RunNext)

FetchFaults == {"transport", "status", "decode"}
Walked == pc \in {"report", "export", "done"} /\ err # "none"

\* While every fetch has succeeded and the iterator has returned no error:
\* one request per page handed over, the pages handed over are the first
\* pages of the collection, in order and as received; and all of them once
\* the walk has returned.
C5_Safe ==
    (h.faults \cap (FetchFaults \cup {"insert"}) = {}) =>
        /\ h.requests = Len(h.delivered)
        /\ IsPrefix(h.delivered, pages)
        /\ pc = "iter" => /\ h.delivered # <<>>
                         /\ [k \in 1..Len(repos) |-> repos[k].Repo.ID]
                                = pages[Len(h.delivered)]
        /\ Walked => (h.delivered = pages /\ h.requests = Len(pages) /\ err = "nil")

\* C5: over n pages chained by `next` relations, when every fetch succeeds
\* and the iterator returns no error, fetchAllStarredRepos hands each page
\* to the iterator exactly once, in the order 1..n and with its records in
\* the order received, issues exactly n requests, and returns.
C5_Pagination ==
    /\ []C5_Safe
    /\ (pc = "walk") ~> Walked

\* C5 witness: a walk over a collection of the most pages (first, middle
\* and last page each with its own form of Link header) has returned after
\* handing over every page, no fetch having failed.
C5_Witness ==
    /\ Walked /\ h.faults = {}
    /\ Len(pages) = MostPages /\ MostPages >= 3
    /\ h.delivered = pages /\ h.requests = MostPages

\* ------------------------------------------------------- the resolver alone
\* getReadmeContent applied to one repository, for every answer pattern of
\* the content endpoint: any first successful candidate (or none), earlier
\* candidates failing in each way, bodies empty or not, readable or not.
AllProfiles ==
    { Profile(f, k, e, r, 1) :
        f \in 0..NumFiles, k \in FailKinds, e \in BOOLEAN, r \in BOOLEAN }

InitResolver ==
    /\ pages = << <<>> >>
    /\ ver = 1
    /\ \E env \in AllProfiles : readmes = [i \in Ids |-> env]
    /\ starred_repos = EmptyStore
    /\ dbExists = TRUE
    /\ runs = 1
    /\ pc = "resolve"
    /\ exit = "none"
    /\ storePrivate = FALSE /\ getReadme = TRUE
    /\ jsonFlag = FALSE /\ skipUpdate = FALSE
    /\ nextPageURL = <<>> /\ currentPage = 1
    /\ \E id \in Ids : repos = << StarredRepo(id, 1) >>
    /\ idx = 1
    /\ err = "none"
    /\ newStars = 0 /\ mainNewStars = 0 /\ updatedStars = 0
    /\ h = H0

Resolve ==
    /\ pc = "resolve"
    /\ pc' = "resolved"
    /\ LET got == getReadmeContent(repos[idx].Repo, readmes)
       IN  h' = [h EXCEPT !.last = got, !.probes = Len(got.probes),
                          !.tokens = Len(got.probes)]
    /\ UNCHANGED << remote, starred_repos, dbExists, runs, exit, flags, walker,
                    repos, idx, err, tallies >>

ResolverNext == Resolve

ResolverSpec == InitResolver /\ [][ResolverNext]_vars

\* The candidates the endpoint answers with a success status, and the
\* first of them (0: none).
Successes(env, id) ==
    {i \in 1..NumFiles : Probe(env, id, i).kind \in {"ok", "readfail"}}

FirstSuccess(env, id) ==
    IF Successes(env, id) = {} THEN 0
    ELSE CHOOSE i \in Successes(env, id) : \A j \in Successes(env, id) : i <= j

UpTo(n) == [k \in 1..n |-> k]

\* C6: if candidate N of readmeFiles is the first the endpoint answers with a
\* success status, getReadmeContent probes exactly candidates 1..N, in list
\* order, and (its body being read) returns the body of candidate N; if no
\* candidate succeeds it probes each of the candidates once, in order, and
\* returns the not-found error.
C6_FallbackOrder ==
    pc = "resolved" =>
        LET id == repos[idx].Repo.ID
            env == readmes[id]
            N == FirstSuccess(env, id)
            got == h.last
        IN  /\ N = 0 => (got.probes = UpTo(NumFiles) /\ got.err = "notfound")
            /\ N # 0 => got.probes = UpTo(N)
            /\ (N # 0 /\ Probe(env, id, N).kind = "ok") =>
                   (got.err = "nil" /\ got.content = Probe(env, id, N).body)

\* C6 witness: the third candidate is the first to succeed, after a
\* transport failure and a non-success status, later candidates would
\* succeed too, and the resolver has returned the third one's body.
C6_Witness ==
    /\ pc = "resolved"
    /\ LET id == repos[idx].Repo.ID
           env == readmes[id]
       IN  /\ FirstSuccess(env, id) = 3
           /\ Probe(env, id, 1).kind = "transport"
           /\ Probe(env, id, 2).kind = "status"
           /\ Probe(env, id, 4).kind = "ok"
           /\ h.last.probes = <<1, 2, 3>>
           /\ h.last.err = "nil"
           /\ h.last.content = <<id, 3, 1>>

\* ------------------------------------------------------ claims, continued
StoreFaults == {"lookup", "insert", "update"}

\* The body the resolver's contract yields for repository id: that of the
\* first candidate answered with a success status.
ResolvedBody(id) ==
    Probe(readmes[id], id, FirstSuccess(readmes[id], id)).body

\* The reconciliation step about to be taken meets a record that is stored
\* without a README, fetch-readme is enabled and the endpoint has a readable
\* README for it.
UpdateCase ==
    /\ AtRecord /\ getReadme /\ ~SkipPrivate(Current)
    /\ Stored(starred_repos, Current.ID)
    /\ ~starred_repos[Current.ID].readme.Valid
    /\ FirstSuccess(readmes[Current.ID], Current.ID) # 0
    /\ readmes[Current.ID].readOk

\* C7: when the record under reconciliation is stored with README absent,
\* fetch-readme is enabled and the resolver succeeds with body B, then (no
\* store operation of the step failing) the step leaves the stored record
\* with README B and every other field as it was, changes no other record,
\* and raises the updated tally by exactly 1, whatever the remote record's
\* fields are.
C7_ReadmeOnlyUpdate ==
    [][ (UpdateCase /\ h'.stepFaults \cap StoreFaults = {}) =>
            /\ starred_repos' =
                  [starred_repos EXCEPT ![Current.ID].readme =
                      NullString(ResolvedBody(Current.ID), TRUE)]
            /\ updatedStars' = updatedStars + 1
            /\ newStars' = newStars ]_vars

\* C7 witness: the iterator has just completed the README of a record
\* whose stored description and starred-at differ from what the remote now
\* reports, and the tally has counted it.
C7_Witness ==
    /\ PastRecord /\ getReadme /\ ~SkipPrivate(Previous)
    /\ Stored(starred_repos, Previous.ID)
    /\ h.updates >= 1 /\ updatedStars >= 1
    /\ h.stepFaults \cap StoreFaults = {}
    /\ starred_repos[Previous.ID].readme
           = NullString(ResolvedBody(Previous.ID), TRUE)
    /\ starred_repos[Previous.ID].description # Previous.Description
    /\ starred_repos[Previous.ID].starred_at # repos[idx - 1].StarredAt

\* C8: a page fetch that fails at transport level or returns a non-success
\* status is fatal to the walk: no further page is requested or handed
\* over, and fetchAllStarredRepos returns an error, not success.
C8_FetchFailureIsAnError ==
    (h.faults \cap {"transport", "status"} # {}) =>
        /\ h.stepFaults \cap {"transport", "status"} # {}
        /\ Walked
        /\ err = "err"

\* C9: a store failure on insert or on README update aborts the
\* synchronization at once: wherever such a failure has happened, the walk
\* has returned the error, no further record or page having been taken up.
C9_StoreFailureAborts ==
    (h.faults \cap {"insert", "update"} # {}) =>
        /\ h.stepFaults \cap {"insert", "update"} # {}
        /\ Walked
        /\ err = "err"

\* C10: a run that met a fatal condition (page-fetch transport error or
\* non-success status, decode error, store error) ends in a failure
\* outcome: it reports no tallies and performs no JSON export.
C10_FatalEndsInFailure ==
    (pc = "done" /\ h.faults \cap (FetchFaults \cup {"insert", "update"}) # {}) =>
        /\ exit = "fatal"
        /\ h.reported = NoReport
        /\ ~h.exported

\* C11: at the end of a synchronization run the reported "new" tally is the
\* number of successful inserts of the run and the reported "updated" tally
\* is the number of successful README updates of the run.
C11_TalliesMatch ==
    Ended =>
        /\ h.reported.new = h.inserts
        /\ h.reported.updated = h.updates

\* C12: a process started with skip-update and JSON export while the store
\* file does not exist ends at once with the precondition error: the file
\* is not created, no store record changes, no page request, README probe
\* or credential read is made and nothing is exported; and a process that
\* has ended this way takes no further step of its own.
C12_OfflinePrecondition ==
    [][ /\ (runs' # runs /\ skipUpdate' /\ jsonFlag' /\ ~dbExists) =>
            /\ pc' = "done" /\ exit' = "fatal"
            /\ h'.faults = {"precondition"}
            /\ ~dbExists'
            /\ starred_repos' = starred_repos
            /\ h'.requests = 0 /\ h'.probes = 0 /\ h'.tokens = 0
            /\ ~h'.exported
        /\ (pc = "done" /\ exit = "fatal") =>
            /\ pc' = "idle"
            /\ dbExists' = dbExists
            /\ starred_repos' = starred_repos ]_vars

\* C12 witness: a process asked for an offline export with no store file
\* has ended with the precondition error.
C12_Witness ==
    /\ pc = "done" /\ exit = "fatal"
    /\ skipUpdate /\ jsonFlag /\ ~dbExists
    /\ h.faults = {"precondition"}

\* The exported array has exactly one entry for every stored record.
ExportsAll(out, st) ==
    /\ Len(out) = Cardinality(StoredIds(st))
    /\ \A id \in StoredIds(st) :
          Cardinality({k \in 1..Len(out) : out[k].ID = id}) = 1

\* C13: a process run with skip-update on an existing store issues no page
\* request, no README probe and no credential read and leaves every stored
\* record as it was; when it has exported (the store carrying out the
\* read), the exported array has exactly one entry for every stored record.
C13_OfflineExportPureRead ==
    [][ (skipUpdate' /\ dbExists) =>
            /\ starred_repos' = starred_repos
            /\ h'.requests = 0 /\ h'.probes = 0 /\ h'.tokens = 0
            /\ (pc' = "done" /\ exit' = "ok" /\ jsonFlag'
                    /\ "read" \notin h'.faults) =>
                  (h'.exported /\ ExportsAll(h'.output, starred_repos')) ]_vars

\* C13 witness: an offline export has ended on a store that holds a private
\* and a public record, and both are in the exported array.
C13_Witness ==
    /\ pc = "done" /\ exit = "ok" /\ skipUpdate /\ jsonFlag
    /\ \E a, b \in StoredIds(starred_repos) :
          starred_repos[a].private /\ ~starred_repos[b].private
    /\ Len(h.output) = Cardinality(StoredIds(starred_repos))
    /\ h.requests = 0 /\ h.tokens = 0

\* C14: a store lookup that failed for a reason other than "not found" aborts
\* the run: wherever such a failure has happened, it happened in the last
\* reconciliation step taken, that step wrote nothing to the store, and the
\* walk has returned the error.
C14_LookupFailureAborts ==
    ("lookup" \in h.faults) =>
        /\ "lookup" \in h.stepFaults
        /\ h.inserts = 0 /\ h.updates = 0
        /\ Walked
        /\ err = "err"

\* The reconciliation step about to be taken meets a record that is not
\* stored, or stored with README absent, and none of whose README candidates
\* the endpoint answers with success, fetch-readme being enabled.
EnrichmentFails ==
    /\ AtRecord /\ getReadme /\ ~SkipPrivate(Current)
    /\ Stored(starred_repos, Current.ID) =>
          ~starred_repos[Current.ID].readme.Valid
    /\ FirstSuccess(readmes[Current.ID], Current.ID) = 0

\* C15: with fetch-readme enabled, when every README candidate of the record
\* under reconciliation fails (and no store operation of the step does), a
\* record not yet stored is inserted as the remote reports it, README
\* absent, and the new tally rises by 1; a stored record is left as it is
\* and the updated tally stays; in both cases no error is raised and the
\* walk goes on (to the next record, or to the next page).
C15_EnrichmentFailureNonFatal ==
    [][ (EnrichmentFails /\ h'.stepFaults \cap StoreFaults = {}) =>
            /\ Len(h'.last.probes) = NumFiles /\ h'.last.err = "notfound"
            /\ err' = err /\ nextPageURL' = nextPageURL
            /\ IF Stored(starred_repos, Current.ID)
               THEN /\ starred_repos' = starred_repos
                    /\ updatedStars' = updatedStars /\ newStars' = newStars
                    /\ pc' = "iter" /\ idx' = idx + 1
               ELSE /\ starred_repos' =
                          [starred_repos EXCEPT ![Current.ID] =
                              RowOf([Current EXCEPT
                                       !.StarredAt = repos[idx].StarredAt,
                                       !.Readme = NoReadme])]
                    /\ newStars' = newStars + 1
                    /\ updatedStars' = updatedStars
                    /\ pc' = "walk" ]_vars

\* C15 witness: with fetch-readme enabled a record all of whose candidates
\* failed has just been inserted with README absent and counted, and the
\* walk is about to fetch the next page.
C15_Witness ==
    /\ pc = "walk" /\ getReadme /\ nextPageURL # <<>>
    /\ repos # <<>> /\ idx <= Len(repos)
    /\ FirstSuccess(readmes[Current.ID], Current.ID) = 0
    /\ Stored(starred_repos, Current.ID)
    /\ starred_repos[Current.ID].readme = NoReadme
    /\ h.last.err = "notfound" /\ Len(h.last.probes) = NumFiles
    /\ h.stepFaults \cap StoreFaults = {}
    /\ h.inserts >= 1 /\ newStars >= 1

\* C16: a record enters the store with the starred-at the remote reports
\* for it in the step that inserts it, and no later step of any run changes
\* a stored record's starred-at, whatever the remote reports afterwards and
\* whether or not the step attaches a README.
C16_StarredAtWriteOnce ==
    [][ \A id \in Ids :
          /\ Stored(starred_repos, id) =>
                /\ Stored(starred_repos', id)
                /\ starred_repos'[id].starred_at = starred_repos[id].starred_at
          /\ (~Stored(starred_repos, id) /\ Stored(starred_repos', id)) =>
                /\ AtRecord /\ Current.ID = id
                /\ starred_repos'[id].starred_at = repos[idx].StarredAt
                /\ repos[idx].StarredAt = StarredRepo(id, ver).StarredAt ]_vars

\* C16 witness: in a second run the remote reports another starred-at for a
\* stored record, the run has just attached a README to it, and the record
\* still has the starred-at of the run that inserted it.
C16_Witness ==
    /\ runs = 2 /\ PastRecord /\ getReadme
    /\ Stored(starred_repos, Previous.ID)
    /\ h.updates >= 1 /\ h.stepFaults = {}
    /\ starred_repos[Previous.ID].readme.Valid
    /\ h.last.err = "nil" /\ h.last.content # <<>>
    /\ starred_repos[Previous.ID].readme.String = h.last.content
    /\ \E v \in Vers :
          /\ v # ver
          /\ starred_repos[Previous.ID].starred_at
                = StarredRepo(Previous.ID, v).StarredAt
    /\ repos[idx - 1].StarredAt = StarredRepo(Previous.ID, ver).StarredAt
    /\ repos[idx - 1].StarredAt # starred_repos[Previous.ID].starred_at

\* ------------------------------------------------------- runs cut short
\* The process is killed while it runs: whatever it has written is in the
\* database file, its own state is gone.  The remote may change before the
\* next run.
Crash ==
    /\ pc \in {"walk", "iter", "report", "export"}
    /\ pc' = "idle" /\ exit' = "crash"
    /\ \E v \in Vers : v >= ver /\ ver' = v /\ readmes' = ReadmeEnvs(v)
    /\ storePrivate' = FALSE /\ getReadme' = FALSE
    /\ jsonFlag' = FALSE /\ skipUpdate' = FALSE
    /\ nextPageURL' = <<>> /\ currentPage' = 0
    /\ repos' = <<>> /\ idx' = 0
    /\ err' = "none"
    /\ newStars' = 0 /\ mainNewStars' = 0 /\ updatedStars' = 0
    /\ h' = H0
    /\ UNCHANGED << pages, starred_repos, dbExists, runs >>

CrashNext ==
    \/ StartRun
    \/ FetchPage
    \/ Reconcile
    \/ IterEnd
    \/ WalkEnd
    \/ Report
    \/ Export
    \/ Exit
    \/ Crash

CrashSpec == Init /\ [][CrashNext]_vars

\* C17: over any sequence of runs, including runs that crash, meet a failing
\* page fetch or a failing store operation: no step removes a record from
\* the store; a step that counts an insert stores an identifier that was not
\* stored, and an identifier enters the store only in such a step; a stored
\* record changes only by a README being attached to a record that had
\* none; and the end of a process, however it comes, leaves the store as
\* it is.
C17_StoreMonotone ==
    [][ /\ \A id \in Ids :
              /\ Stored(starred_repos, id) => Stored(starred_repos', id)
              /\ (Stored(starred_repos, id)
                      /\ starred_repos'[id] # starred_repos[id]) =>
                    /\ ~starred_repos[id].readme.Valid
                    /\ starred_repos'[id].readme.Valid
                    /\ starred_repos'[id] =
                          [starred_repos[id] EXCEPT
                              !.readme = starred_repos'[id].readme]
              /\ (~Stored(starred_repos, id) /\ Stored(starred_repos', id)) =>
                    h'.inserts = h.inserts + 1
        /\ h'.inserts = h.inserts + 1 =>
              /\ AtRecord
              /\ ~Stored(starred_repos, Current.ID)
              /\ Stored(starred_repos', Current.ID)
        /\ pc' = "idle" => starred_repos' = starred_repos ]_vars

\* C17 witness: the first run was killed after it had inserted two records,
\* and both are in the store.
C17_Witness ==
    /\ pc = "idle" /\ exit = "crash" /\ runs = 1
    /\ Cardinality(StoredIds(starred_repos)) >= 2

\* ------------------------------------------------------- the topics alone
\* A repository with any list of comma-free topic labels is written to the
\* store (StringList.Value) and read back for the export (StringList.Scan).
Labels == UNION {[1..n -> {"a", "b"}] : n \in 1..MaxLabelLen}
TopicLists == UNION {[1..n -> Labels] : n \in 0..MaxTopics}

InitTopics ==
    /\ pages = << <<2>> >>
    /\ ver = 1
    /\ readmes = ReadmeEnvs(1)
    /\ starred_repos = EmptyStore
    /\ dbExists = TRUE
    /\ runs = 1
    /\ pc = "insert"
    /\ exit = "none"
    /\ storePrivate = FALSE /\ getReadme = FALSE
    /\ jsonFlag = TRUE /\ skipUpdate = FALSE
    /\ nextPageURL = <<>> /\ currentPage = 1
    /\ \E t \in TopicLists :
          repos = << [StarredRepo(2, 1) EXCEPT !.Repo.Topics = t] >>
    /\ idx = 1
    /\ err = "none"
    /\ newStars = 0 /\ mainNewStars = 0 /\ updatedStars = 0
    /\ h = H0

\* sess.Collection("starred_repos").Insert(repo)
InsertTopics ==
    /\ pc = "insert"
    /\ pc' = "stored"
    /\ starred_repos' = Insert(starred_repos, repos[idx].Repo, TRUE).store
    /\ UNCHANGED << remote, dbExists, runs, exit, flags, walker, repos, idx,
                    err, tallies, h >>

\* jsonExport(sess)
ExportTopics ==
    /\ pc = "stored"
    /\ pc' = "exported"
    /\ h' = [h EXCEPT !.exported = TRUE,
                      !.output = jsonExport(starred_repos, TRUE)]
    /\ UNCHANGED << remote, starred_repos, dbExists, runs, exit, flags, walker,
                    repos, idx, err, tallies >>

TopicsNext ==
    \/ InsertTopics
    \/ ExportTopics

TopicsSpec == InitTopics /\ [][TopicsNext]_vars

\* C18: a repository whose topics are any ordered list of comma-free labels,
\* the empty list included, is exported with the same list of topics after
\* having been stored.
C18_TopicsRoundTrip ==
    pc = "exported" =>
        /\ Len(h.output) = 1
        /\ h.output[1].Topics = repos[idx].Repo.Topics

\* The reconciliation step about to be taken meets a record stored with a
\* zero-length README, fetch-readme is enabled and the endpoint has a
\* readable README for it.
EmptyReadmeCase ==
    /\ AtRecord /\ getReadme /\ ~SkipPrivate(Current)
    /\ Stored(starred_repos, Current.ID)
    /\ starred_repos[Current.ID].readme = NullString(<<>>, TRUE)
    /\ FirstSuccess(readmes[Current.ID], Current.ID) # 0
    /\ readmes[Current.ID].readOk

\* C19: with fetch-readme enabled, the reconciliation of a record stored
\* with an empty README (no store operation of the step failing) invokes
\* the README resolver and stores the body it resolves.
C19_EmptyReadmeRefetched ==
    [][ (EmptyReadmeCase /\ h'.processed = h.processed + 1
            /\ h'.stepFaults \cap StoreFaults = {}) =>
            /\ h'.probes > h.probes
            /\ starred_repos'[Current.ID].readme
                  = NullString(ResolvedBody(Current.ID), TRUE) ]_vars

\* ----------------------------------------------------------- re-running
\* The same command is repeated against the unchanged remote, and no
\* operation fails: the steps of the program in which every request and
\* every store operation succeeds.  A README candidate that fails is not a
\* failing operation: the resolver goes on to the next one.
NoFailure == h.faults \subseteq {"probe"}

\* A process is started that passes the precondition, opens the database
\* and finds the credential.
StartRunOk ==
    /\ pc = "idle"
    /\ \E sp, gr, jf, su \in BOOLEAN :
          /\ ~OfflinePrecondition(su, jf)
          /\ StartProcess(sp, gr, jf, su, TRUE, "ok", FALSE)

RerunNext ==
    \/ StartRunOk
    \/ Fetch("ok")
    \/ ReconcileWith("ok", TRUE)
    \/ IterEnd
    \/ WalkEnd
    \/ Report
    \/ ExportWith(TRUE)
    \/ RunAgain

RerunSpec == Init /\ [][RerunNext]_vars

AllEligibleStored ==
    \A id \in RemoteIds : Eligible(id) => Stored(starred_repos, id)

\* The run is over and an eligible remote record is missing only if the run
\* inserted a record.
Progress ==
    (Ended /\ NoFailure /\ h.inserts = 0) => AllEligibleStored

Converged == Ended /\ NoFailure /\ AllEligibleStored

Min(a, b) == IF a <= b THEN a ELSE b

\* The eligible records of page k, and those of them that are stored.
EligibleOn(k) == {j \in 1..Len(pages[k]) : Eligible(pages[k][j])}
StoredOn(k) == {j \in EligibleOn(k) : Stored(starred_repos, pages[k][j])}

\* After the r-th run, r eligible records of every page are stored, or all
\* of them where the page has fewer.
Advanced ==
    Ended => \A k \in 1..Len(pages) :
        Cardinality(StoredOn(k)) >= Min(runs, Cardinality(EligibleOn(k)))

\* C20: repeating the synchronization against the unchanged remote, with no
\* failing operation: a run that ends with an eligible remote record missing
\* from the store has inserted a record; the r-th run ends with at least r
\* eligible records of every page stored (all of them, on a page that has no
\* more), so that as many runs as the longest page has records store every
\* eligible remote record; and once every eligible remote record is stored
\* no step inserts anything.
C20_Convergence ==
    /\ []Progress
    /\ []Advanced
    /\ [][ (pc \in {"walk", "iter"} /\ AllEligibleStored) =>
              h'.inserts <= h.inserts ]_vars

\* C20 witness: the second of two clean runs was needed, inserted a record,
\* and has ended with every eligible remote record stored.
C20_Witness ==
    /\ Converged /\ runs = 2 /\ h.again
    /\ h.inserts >= 1
    /\ \E k \in 1..Len(pages) : Len(pages[k]) >= 2

====
